---------------------------- MODULE Spec2Model ----------------------------
(***************************************************************************)
(* Model of backend/db/notification.py: the Notification table and the    *)
(* coroutines CreateForUser, QueryLast, TryClearBadge and _TryUpdate.      *)
(*                                                                         *)
(* A coroutine suspends only at its "yield" points (the range query and    *)
(* the conditional Update).  A call takes a step when it is invoked and    *)
(* when the IOLoop resumes it with the result of the coroutine it yielded  *)
(* on (QueryLast, _TryUpdate); the store takes a step of its own when it   *)
(* answers the RangeQuery or processes the Update, and other calls and     *)
(* answers run between the answer of the store and the resumption of the   *)
(* call.  QueryLast and _TryUpdate are resumed in between as well: what    *)
(* they return is a function of the answer of the store alone, and it is   *)
(* the reply kept for the caller.  The notification table is a function    *)
(* from the keys <<user_id, notification_id>> that exist to their records. *)
(* The store itself (DBObject.Update, DBRangeObject.RangeQuery) is not in  *)
(* notification.py; it is modelled from its contract: an atomic            *)
(* conditional put, and a range query that is either consistent or may     *)
(* miss the most recent writes.  An Update that raises an error of the     *)
(* store itself (I/O failure, timeout, throttling) has either stored       *)
(* nothing or, when the reply to an applied put is lost, the record.       *)
(*                                                                         *)
(* Record fields kept: user_id, notification_id, name, badge, sender_id,   *)
(* op_id, update_seq, viewed_seq.  An attribute the code never assigns is  *)
(* Unset (op_id) or <<>> (update_seq, viewed_seq).                         *)
(***************************************************************************)
EXTENDS Integers, Sequences, FiniteSets, TLC

\* ---------------------------------------------------------------- bounds
MaxCalls   == 3       \* calls made in one history (CreateForUser and TryClearBadge together)
MaxClearId == 2       \* caller-chosen ids of TryClearBadge are 1..MaxClearId
MaxSeqCalls == 2      \* CreateForUser calls made in one history of SpecSeq
MaxTimeouts == 1      \* Updates of one history that time out after the store applied them

Users    == {1, 2}           \* user ids (partitions of the table, users of operations)
Targets  == {1}              \* the user_id the calls are made for
Creators == 1..MaxCalls     \* the p-th CreateForUser call
Clearers == 1..MaxCalls     \* the q-th TryClearBadge call
ClearIds == 1..MaxClearId

Unset == 0            \* the value of an attribute that was never assigned

VARIABLES
  table,           \* the notification table: key -> record
  log,             \* per user, the notification_ids in the order they were committed
  c_pc,            \* per CreateForUser call: "idle", "query" (suspended at the yield of QueryLast),
                   \*   "write" (suspended at the yield of _TryUpdate), "done", "raised"
  c_args,          \* per running CreateForUser call: its arguments (consistent_read is reassigned by the loop)
  c_notification,  \* per CreateForUser call: the candidate awaiting its _TryUpdate (<<>> if none)
  c_reply,         \* per CreateForUser call: the result on its way to the suspended call (NoReply if none)
  c_ret,           \* per CreateForUser call: the returned notification (<<>> if none)
  t_pc,            \* per TryClearBadge call: "idle", "write" (suspended at the yield of _TryUpdate), "done"
  t_notification,  \* per TryClearBadge call: the notification it assembled
  t_reply,         \* per TryClearBadge call: the result of its _TryUpdate (<<>> while the Update is pending)
  t_ret,           \* per TryClearBadge call: the returned booleans, in order
  t_exc,           \* per TryClearBadge call: the exception Update raised, which its _TryUpdate catches
  t_fresh,         \* history, per TryClearBadge call: no record had its key when it was called
  lost_race,       \* history: the Update of some CreateForUser call was rejected, the id of its candidate being in use
  all_inc,         \* history: every CreateForUser call so far was made with inc_badge = True
  inc_made,        \* history: the CreateForUser calls made so far with inc_badge = True
  c_failed,        \* per CreateForUser call: the id whose write failed in the previous iteration (Unset if none)
  c_pref,          \* history, per CreateForUser call awaiting its first QueryLast: the consistent_read it was called with
  c_error          \* history, per CreateForUser call: its QueryLast raised

vars == <<table, log, c_pc, c_args, c_notification, c_reply, c_ret,
          t_pc, t_notification, t_reply, t_ret, t_exc, t_fresh, lost_race, all_inc, inc_made,
          c_failed, c_pref, c_error>>

\* ------------------------------------------------- operation context
\* The operation that triggers call p: each call belongs to its own operation.
OperationOf(p) == [user_id |-> IF p % 2 = 1 THEN 1 ELSE 2, operation_id |-> p]

NameOf(p) == IF p % 2 = 1 THEN "share" ELSE "comment"

\* ------------------------------------------------------------ the store
Key(rec) == <<rec.user_id, rec.notification_id>>

\* The keys of user u that a read sees when the first n commits have reached it.
Visible(lg, u, n) == {<<u, lg[u][i]>> : i \in 1..n}

\* RangeQuery(user_id, limit=1, scan_forward=False): the visible record of the
\* user with the highest notification_id, as a list of at most one record.
RangeQueryLast(tbl, keys) ==
  IF keys = {} THEN <<>>
  ELSE LET k == CHOOSE k \in keys : \A j \in keys : j[2] <= k[2]
       IN  <<tbl[k]>>

\* How many commits of user u a read may have seen.
ReadPoints(lg, u, consistent_read) ==
  IF consistent_read THEN {Len(lg[u])} ELSE 0..Len(lg[u])

\* expected={'notification_id': False}: the put applies only if no record has the key.
ExpectedNone(tbl, rec) == TRUE
Expected(tbl, rec) == Key(rec) \notin DOMAIN tbl

\* The table after the put of rec.
Put(tbl, rec) == [k \in DOMAIN tbl \cup {Key(rec)} |-> IF k = Key(rec) THEN rec ELSE tbl[k]]

\* DBObject.Update with an expectation.  fault is what the store does besides
\* evaluating the expectation: "none", "error" (it raises an error of its own
\* and applies nothing) or "timeout" (it applies the put, and the caller gets
\* a timeout instead of the reply).  A failed expectation raises and changes
\* nothing.
Update(tbl, rec, expected, fault) ==
  IF ~expected \/ fault = "error"
  THEN [raised |-> TRUE, table |-> tbl]
  ELSE [raised |-> fault = "timeout", table |-> Put(tbl, rec)]

\* ------------------------------------------------------ notification.py
\* _TryUpdate: any exception of Update becomes False.
TryUpdateAlwaysTrue(tbl, rec, fault) ==
  LET r == Update(tbl, rec, Expected(tbl, rec), fault)
  IN  [success |-> TRUE, table |-> r.table]
TryUpdate(tbl, rec, fault) ==
  LET r == Update(tbl, rec, Expected(tbl, rec), fault)
  IN  [success |-> ~r.raised, table |-> r.table]

\* QueryLast: notification_list[0] if len(notification_list) > 0 else None,
\* kept as the list of at most one record.
QueryLastForward(tbl, keys) ==
  IF keys = {} THEN <<>>
  ELSE <<tbl[CHOOSE k \in keys : \A j \in keys : k[2] <= j[2]]>>
QueryLast(tbl, keys) ==
  LET notification_list == RangeQueryLast(tbl, keys)
  IN  IF Len(notification_list) > 0 THEN <<notification_list[1]>> ELSE <<>>

NextIdStuck(last) == IF Len(last) = 0 THEN 1 ELSE last[1].notification_id
NextIdSkip(last) == IF Len(last) = 0 THEN 1 ELSE last[1].notification_id + 2
NextId(last) == IF Len(last) = 0 THEN 1 ELSE last[1].notification_id + 1

CarriedBadgeZero(last) == 0
CarriedBadge(last) == IF Len(last) = 0 THEN 0 ELSE last[1].badge

NewBadgeSet(badge, inc_badge) == IF inc_badge THEN 1 ELSE badge
NewBadge(badge, inc_badge) == IF inc_badge THEN badge + 1 ELSE badge

\* An attribute or argument that may be None: <<>> or <<v>>.
Optional(S) == {<<>>} \cup {<<v>> : v \in S}

SeqValues == {0, 1}          \* update_seq and viewed_seq values
SeqNumPairs == Optional([update_seq : Optional(SeqValues), viewed_seq : Optional(SeqValues)])

\* update_seq and viewed_seq of the candidate: update_seq is stored when a
\* seq_num_pair was given, viewed_seq when it is not None and the notification
\* is for the user of the operation.
SeqFieldsAnyUser(seq_num_pair, op_user_id, user_id) ==
  IF seq_num_pair # <<>>
  THEN [update_seq |-> seq_num_pair[1].update_seq, viewed_seq |-> seq_num_pair[1].viewed_seq]
  ELSE [update_seq |-> <<>>, viewed_seq |-> <<>>]
SeqFields(seq_num_pair, op_user_id, user_id) ==
  IF seq_num_pair # <<>>
  THEN LET update_seq == seq_num_pair[1].update_seq
           viewed_seq == seq_num_pair[1].viewed_seq
       IN  [update_seq |-> update_seq,
            viewed_seq |-> IF viewed_seq # <<>> /\ op_user_id = user_id
                           THEN viewed_seq ELSE <<>>]
  ELSE [update_seq |-> <<>>, viewed_seq |-> <<>>]

\* The candidate CreateForUser assembles from the last notification.
CandidateForSender(p, args, last) ==
  [user_id         |-> OperationOf(p).user_id,
   notification_id |-> NextId(last),
   name            |-> NameOf(p),
   badge           |-> NewBadge(CarriedBadge(last), args.inc_badge),
   sender_id       |-> OperationOf(p).user_id,
   op_id           |-> OperationOf(p).operation_id,
   update_seq      |-> SeqFields(args.seq_num_pair, OperationOf(p).user_id, args.user_id).update_seq,
   viewed_seq      |-> SeqFields(args.seq_num_pair, OperationOf(p).user_id, args.user_id).viewed_seq]
Candidate(p, args, last) ==
  [user_id         |-> args.user_id,
   notification_id |-> NextId(last),
   name            |-> NameOf(p),
   badge           |-> NewBadge(CarriedBadge(last), args.inc_badge),
   sender_id       |-> OperationOf(p).user_id,
   op_id           |-> OperationOf(p).operation_id,
   update_seq      |-> SeqFields(args.seq_num_pair, OperationOf(p).user_id, args.user_id).update_seq,
   viewed_seq      |-> SeqFields(args.seq_num_pair, OperationOf(p).user_id, args.user_id).viewed_seq]

\* The notification TryClearBadge assembles.
ClearBadges(user_id, notification_id) ==
  [user_id         |-> user_id,
   notification_id |-> notification_id,
   name            |-> "clear_badges",
   badge           |-> 0,
   sender_id       |-> user_id,
   op_id           |-> Unset,
   update_seq      |-> <<>>,
   viewed_seq      |-> <<>>]

\* The exception _TryUpdate catches and logs: "" (none), "fault" (an error of
\* the store itself, raised before the expectation is evaluated) or "expected"
\* (the expectation failed: the id is in use).
Caught(tbl, rec, fault) ==
  IF fault # "none" THEN "fault" ELSE IF ~Expected(tbl, rec) THEN "expected" ELSE ""

\* Where an exception of QueryLast leaves the call: nothing in the loop catches
\* it, so it is raised to the caller.
QueryErrorOutcomeRetry == "query"
QueryErrorOutcome == "raised"

\* consistent_read = True, before the loop starts again.
EscalatedNot(args) == args
Escalated(args) == [args EXCEPT !.consistent_read = TRUE]

\* The arguments of a call that is not running (its frame does not exist).
NoArgs == [user_id |-> Unset, inc_badge |-> FALSE, consistent_read |-> FALSE,
           seq_num_pair |-> <<>>]

\* What is on its way to a suspended CreateForUser call: nothing, the result
\* of QueryLast (the last notification or None), the exception of QueryLast,
\* or the result of _TryUpdate.
NoReply == [kind |-> "none", notification |-> <<>>, success |-> FALSE]
QueryLastReply(last) == [kind |-> "QueryLast", notification |-> last, success |-> FALSE]
QueryLastRaised == [kind |-> "error", notification |-> <<>>, success |-> FALSE]
TryUpdateReply(success) == [kind |-> "_TryUpdate", notification |-> <<>>, success |-> success]

\* Calls made so far.
Calls == Cardinality({p \in Creators : c_pc[p] # "idle"})
           + Cardinality({q \in Clearers : t_pc[q] # "idle"})

\* The CreateForUser calls whose Update was applied and whose _TryUpdate
\* result, True, has not reached them yet.
Stored == {p \in Creators : c_reply[p] = TryUpdateReply(TRUE)}

\* The records stored by an Update that raised: every other record was
\* returned, or is about to be, by a CreateForUser call, or was reported
\* by the _TryUpdate of a TryClearBadge call.
TimedOut ==
  Cardinality(DOMAIN table) - Cardinality({p \in Creators : c_pc[p] = "done"})
    - Cardinality(Stored) - Cardinality({q \in Clearers : t_reply[q] = <<TRUE>>})

\* --------------------------------------------------------------- Init
Init ==
  /\ table = <<>>
  /\ log = [u \in Users |-> <<>>]
  /\ c_pc = [p \in Creators |-> "idle"]
  /\ c_args = [p \in Creators |-> NoArgs]
  /\ c_notification = [p \in Creators |-> <<>>]
  /\ c_reply = [p \in Creators |-> NoReply]
  /\ c_ret = [p \in Creators |-> <<>>]
  /\ t_pc = [q \in Clearers |-> "idle"]
  /\ t_notification = [q \in Clearers |-> <<>>]
  /\ t_reply = [q \in Clearers |-> <<>>]
  /\ t_ret = [q \in Clearers |-> <<>>]
  /\ t_exc = [q \in Clearers |-> ""]
  /\ t_fresh = [q \in Clearers |-> FALSE]
  /\ lost_race = FALSE
  /\ all_inc = TRUE
  /\ inc_made = 0
  /\ c_failed = [p \in Creators |-> Unset]
  /\ c_pref = [p \in Creators |-> FALSE]
  /\ c_error = [p \in Creators |-> FALSE]

\* -------------------------------------------------------- CreateForUser
\* A caller invokes CreateForUser(user_id, seq_num_pair, inc_badge, consistent_read);
\* the call runs to the yield of QueryLast, whose RangeQuery is now pending.
CreateForUser_Call(p, user_id, inc_badge, consistent_read, seq_num_pair) ==
  /\ c_pc[p] = "idle"
  /\ Calls < MaxCalls
  /\ \A o \in Creators : o < p => c_pc[o] # "idle"    \* call p is the p-th invocation
  /\ c_args' = [c_args EXCEPT ![p] = [user_id |-> user_id, inc_badge |-> inc_badge,
                                      consistent_read |-> consistent_read,
                                      seq_num_pair |-> seq_num_pair]]
  /\ c_pref' = [c_pref EXCEPT ![p] = consistent_read]
  /\ c_pc' = [c_pc EXCEPT ![p] = "query"]
  /\ all_inc' = (all_inc /\ inc_badge)
  /\ inc_made' = (IF inc_badge THEN inc_made + 1 ELSE inc_made)
  /\ UNCHANGED <<table, log, c_notification, c_reply, c_ret, t_pc, t_notification, t_reply,
                 t_ret, t_exc, t_fresh, lost_race, c_failed, c_error>>

\* The store answers the RangeQuery of the QueryLast of call p: the table is
\* read now, and QueryLast returns the last notification of the answer.
QueryLast_RangeQuery(p) ==
  /\ c_pc[p] = "query" /\ c_reply[p] = NoReply
  /\ \E n \in ReadPoints(log, c_args[p].user_id, c_args[p].consistent_read) :
       \E last \in {QueryLast(table, Visible(log, c_args[p].user_id, n))} :
         c_reply' = [c_reply EXCEPT ![p] = QueryLastReply(last)]
  /\ UNCHANGED <<table, log, c_pc, c_args, c_notification, c_ret, t_pc, t_notification, t_reply,
                 t_ret, t_exc, t_fresh, lost_race, all_inc, inc_made, c_failed, c_pref, c_error>>

\* The RangeQuery of the QueryLast of call p raises.
QueryLast_RangeQueryRaises(p) ==
  /\ c_pc[p] = "query" /\ c_reply[p] = NoReply
  /\ c_reply' = [c_reply EXCEPT ![p] = QueryLastRaised]
  /\ UNCHANGED <<table, log, c_pc, c_args, c_notification, c_ret, t_pc, t_notification, t_reply,
                 t_ret, t_exc, t_fresh, lost_race, all_inc, inc_made, c_failed, c_pref, c_error>>

\* CreateForUser is resumed with the result of QueryLast; the candidate is
\* assembled and the call runs to the yield of _TryUpdate, whose Update is now
\* pending.
CreateForUser_Query(p) ==
  /\ c_pc[p] = "query" /\ c_reply[p].kind = "QueryLast"
  /\ c_notification' = [c_notification EXCEPT
                          ![p] = <<Candidate(p, c_args[p], c_reply[p].notification)>>]
  /\ c_reply' = [c_reply EXCEPT ![p] = NoReply]
  /\ c_pc' = [c_pc EXCEPT ![p] = "write"]
  /\ c_failed' = [c_failed EXCEPT ![p] = Unset]
  /\ c_pref' = [c_pref EXCEPT ![p] = FALSE]
  /\ UNCHANGED <<table, log, c_args, c_ret, t_pc, t_notification, t_reply, t_ret, t_exc,
                 t_fresh, lost_race, all_inc, inc_made, c_error>>

\* CreateForUser is resumed with the exception of QueryLast, which leaves it.
CreateForUser_QueryRaises(p) ==
  /\ c_pc[p] = "query" /\ c_reply[p].kind = "error"
  /\ c_pc' = [c_pc EXCEPT ![p] = QueryErrorOutcome]
  /\ c_reply' = [c_reply EXCEPT ![p] = NoReply]
  /\ c_error' = [c_error EXCEPT ![p] = TRUE]
  /\ c_args' = [c_args EXCEPT ![p] = NoArgs]
  /\ c_failed' = [c_failed EXCEPT ![p] = Unset]
  /\ c_pref' = [c_pref EXCEPT ![p] = FALSE]
  /\ UNCHANGED <<table, log, c_notification, c_ret, t_pc, t_notification, t_reply, t_ret,
                 t_exc, t_fresh, lost_race, all_inc, inc_made>>

\* The store processes the Update of the candidate of call p, and _TryUpdate
\* turns its outcome into True or False.
CreateForUser_Update(p, fault) ==
  /\ c_pc[p] = "write" /\ c_reply[p] = NoReply
  /\ \E rec \in {c_notification[p][1]} : \E r \in {TryUpdate(table, rec, fault)} :
         /\ table' = r.table
         /\ log' = IF DOMAIN r.table # DOMAIN table
                   THEN [log EXCEPT ![rec.user_id] = Append(@, rec.notification_id)]
                   ELSE log
         /\ lost_race' = (lost_race \/ Caught(table, rec, fault) = "expected")
         /\ c_reply' = [c_reply EXCEPT ![p] = TryUpdateReply(r.success)]
  /\ UNCHANGED <<c_pc, c_args, c_notification, c_ret, t_pc, t_notification, t_reply, t_ret,
                 t_exc, t_fresh, all_inc, inc_made, c_failed, c_pref, c_error>>

CreateForUser_TryUpdate(p) == CreateForUser_Update(p, "none")

\* Update raises for a reason other than the expectation (I/O failure,
\* throttling, a timeout of the request) and nothing was written.
CreateForUser_TryUpdateFault(p) == CreateForUser_Update(p, "error")

\* Update raises a timeout although the store applied the put.
CreateForUser_TryUpdateTimeout(p) ==
  /\ TimedOut < MaxTimeouts
  /\ CreateForUser_Update(p, "timeout")

\* CreateForUser is resumed with the result of _TryUpdate: on True the
\* notification is returned, on False the loop starts again with
\* consistent_read = True and runs to the yield of QueryLast.
CreateForUser_Write(p) ==
  /\ c_pc[p] = "write" /\ c_reply[p].kind = "_TryUpdate"
  /\ IF c_reply[p].success
     THEN /\ c_ret' = [c_ret EXCEPT ![p] = c_notification[p]]
          /\ c_pc' = [c_pc EXCEPT ![p] = "done"]
          /\ c_args' = [c_args EXCEPT ![p] = NoArgs]
          /\ UNCHANGED c_failed
     ELSE /\ c_args' = [c_args EXCEPT ![p] = Escalated(@)]
          /\ c_pc' = [c_pc EXCEPT ![p] = "query"]
          /\ c_failed' = [c_failed EXCEPT ![p] = c_notification[p][1].notification_id]
          /\ UNCHANGED c_ret
  /\ c_notification' = [c_notification EXCEPT ![p] = <<>>]
  /\ c_reply' = [c_reply EXCEPT ![p] = NoReply]
  /\ UNCHANGED <<table, log, t_pc, t_notification, t_reply, t_ret, t_exc, t_fresh, lost_race,
                 all_inc, inc_made, c_pref, c_error>>

\* -------------------------------------------------------- TryClearBadge
\* A caller invokes TryClearBadge(user_id, notification_id); the call runs to
\* the yield of _TryUpdate, whose Update is now pending.
TryClearBadge_Call(q, user_id, notification_id) ==
  /\ t_pc[q] = "idle"
  /\ Calls < MaxCalls
  /\ \A o \in Clearers : o < q => t_pc[o] # "idle"    \* call q is the q-th invocation
  /\ t_notification' = [t_notification EXCEPT ![q] = <<ClearBadges(user_id, notification_id)>>]
  /\ t_pc' = [t_pc EXCEPT ![q] = "write"]
  /\ t_fresh' = [t_fresh EXCEPT ![q] = <<user_id, notification_id>> \notin DOMAIN table]
  /\ UNCHANGED <<table, log, c_pc, c_args, c_notification, c_reply, c_ret, t_reply, t_ret,
                 t_exc, lost_race, all_inc, inc_made, c_failed, c_pref, c_error>>

\* The store processes the Update of the notification of call q, and
\* _TryUpdate turns its outcome into True or False.
TryClearBadge_Update(q, fault) ==
  /\ t_pc[q] = "write" /\ t_reply[q] = <<>>
  /\ \E rec \in {t_notification[q][1]} : \E r \in {TryUpdate(table, rec, fault)} :
         /\ table' = r.table
         /\ log' = IF DOMAIN r.table # DOMAIN table
                   THEN [log EXCEPT ![rec.user_id] = Append(@, rec.notification_id)]
                   ELSE log
         /\ t_exc' = [t_exc EXCEPT ![q] = Caught(table, rec, fault)]
         /\ t_reply' = [t_reply EXCEPT ![q] = <<r.success>>]
  /\ UNCHANGED <<c_pc, c_args, c_notification, c_reply, c_ret, t_pc, t_notification, t_ret,
                 t_fresh, lost_race, all_inc, inc_made, c_failed, c_pref, c_error>>

TryClearBadge_TryUpdate(q) == TryClearBadge_Update(q, "none")

TryClearBadge_TryUpdateFault(q) == TryClearBadge_Update(q, "error")

\* Update raises a timeout although the store applied the put.
TryClearBadge_TryUpdateTimeout(q) ==
  /\ TimedOut < MaxTimeouts
  /\ TryClearBadge_Update(q, "timeout")

\* TryClearBadge is resumed with the result of _TryUpdate and returns it.
TryClearBadge_Write(q) ==
  /\ t_pc[q] = "write" /\ t_reply[q] # <<>>
  /\ t_ret' = [t_ret EXCEPT ![q] = Append(@, t_reply[q][1])]
  /\ t_pc' = [t_pc EXCEPT ![q] = "done"]
  /\ UNCHANGED <<table, log, c_pc, c_args, c_notification, c_reply, c_ret, t_notification,
                 t_reply, t_exc, t_fresh, lost_race, all_inc, inc_made, c_failed, c_pref,
                 c_error>>

\* ------------------------------------------------------- specifications
\* The resumptions of the CreateForUser calls, and the answers of a store whose
\* Update raises only when the expectation fails and whose range query never
\* raises.
Resume ==
  \/ \E p \in Creators : QueryLast_RangeQuery(p)
  \/ \E p \in Creators : CreateForUser_Query(p)
  \/ \E p \in Creators : CreateForUser_TryUpdate(p)
  \/ \E p \in Creators : CreateForUser_Write(p)

\* The steps of the calls against that store.
Step ==
  \/ \E p \in Creators, u \in Targets, inc \in BOOLEAN, cr \in BOOLEAN :
       CreateForUser_Call(p, u, inc, cr, <<>>)
  \/ Resume
  \/ \E q \in Clearers, u \in Targets, id \in ClearIds : TryClearBadge_Call(q, u, id)
  \/ \E q \in Clearers : TryClearBadge_TryUpdate(q)
  \/ \E q \in Clearers : TryClearBadge_Write(q)

\* The steps in which the store raises an error of its own and has written
\* nothing, and the resumption of a call with the exception of its query.
Fault ==
  \/ \E p \in Creators : QueryLast_RangeQueryRaises(p)
  \/ \E p \in Creators : CreateForUser_QueryRaises(p)
  \/ \E p \in Creators : CreateForUser_TryUpdateFault(p)
  \/ \E q \in Clearers : TryClearBadge_TryUpdateFault(q)

Next == Step \/ Fault

\* The calls against a store whose Update, when it raises, has applied nothing.
Spec == Init /\ [][Next]_vars

\* The steps in which an Update times out after the store applied it.
Timeout ==
  \/ \E p \in Creators : CreateForUser_TryUpdateTimeout(p)
  \/ \E q \in Clearers : TryClearBadge_TryUpdateTimeout(q)

\* Every outcome of the store: Spec and the timeouts of applied writes.
SpecTimeout == Init /\ [][Next \/ Timeout]_vars

\* The IOLoop resumes every coroutine whose I/O has completed and the store
\* answers every request; all that is assumed here is the weaker condition
\* that, while some CreateForUser call is running, one of the running calls
\* is eventually answered or resumed.
Fairness == WF_vars(Resume)

\* The store raises no error of its own, and running calls are resumed.
SpecLive == Init /\ [][Step]_vars /\ Fairness

\* Serialized CreateForUser calls: a call is made only when every earlier call
\* has returned, and nothing else writes the user's records.  Update may still
\* raise for a reason of its own.
SerialStep ==
  \/ \E p \in Creators, u \in Targets, inc \in BOOLEAN, cr \in BOOLEAN :
       /\ \A o \in Creators : c_pc[o] \in {"idle", "done"}
       /\ CreateForUser_Call(p, u, inc, cr, <<>>)
  \/ Resume
  \/ \E p \in Creators : CreateForUser_TryUpdateFault(p)

SpecSerial == Init /\ [][SerialStep]_vars

\* Calls for every user of Users instead of one target, against a store that
\* raises only on a conflict.  The calls are made with consistent_read = False:
\* an eventual read may see every commit, so such a call can assemble every
\* candidate a call made with consistent_read = True can.
UsersStep ==
  \/ \E p \in Creators, u \in Users, inc \in BOOLEAN : CreateForUser_Call(p, u, inc, FALSE, <<>>)
  \/ Resume
  \/ \E q \in Clearers, u \in Users, id \in ClearIds : TryClearBadge_Call(q, u, id)
  \/ \E q \in Clearers : TryClearBadge_TryUpdate(q)
  \/ \E q \in Clearers : TryClearBadge_Write(q)

SpecUsers == Init /\ [][UsersStep]_vars

\* CreateForUser calls made with a seq_num_pair, for either user (the operation
\* of call p is of user 1 or 2 by the parity of p), one after the other,
\* against a store that may raise.  The calls are made with consistent_read =
\* False, so that a call whose consistent_read is True has had a write fail.
SeqStep ==
  \/ \E p \in Creators, u \in Users, inc \in BOOLEAN, pair \in SeqNumPairs :
       /\ Calls < MaxSeqCalls
       /\ \A o \in Creators : c_pc[o] \in {"idle", "done"}
       /\ CreateForUser_Call(p, u, inc, FALSE, pair)
  \/ Resume
  \/ \E p \in Creators : CreateForUser_TryUpdateFault(p)

SpecSeq == Init /\ [][SeqStep]_vars


\* ------------------------------------------------------------- helpers
Keys == DOMAIN table

\* The notification_ids that exist for user u.
IdsOf(u) == {k[2] : k \in {j \in Keys : j[1] = u}}

\* The CreateForUser calls that have returned, and those that returned for user u.
Returned == {p \in Creators : c_pc[p] = "done"}
ReturnedFor(u) == {p \in Returned : c_ret[p][1].user_id = u}

\* The keys whose record was stored by CreateForUser call p.
CommittedBy(p) == {k \in Keys : table[k].op_id = OperationOf(p).operation_id}

\* No record of the table was stored by TryClearBadge.
OnlyCreateForUser == \A k \in Keys : table[k].op_id # Unset

\* The store answers the RangeQuery of call p in this step.
Answers(p) == c_reply[p] = NoReply /\ c_reply'[p].kind = "QueryLast"

\* Call p is resumed with the result of its QueryLast in this step.
Queries(p) == c_pc[p] = "query" /\ c_pc'[p] = "write"

\* The store processes the Update of call p in this step, and it applies it
\* in this step.
Updates(p) == c_reply[p] = NoReply /\ c_reply'[p].kind = "_TryUpdate"
Commits(p) == Updates(p) /\ table' # table

\* Call p is resumed with the result of its _TryUpdate in this step: it
\* returns its notification, or its write has failed and it starts again.
Returns(p) == c_pc[p] = "write" /\ c_pc'[p] = "done"
WriteFails(p) == c_pc[p] = "write" /\ c_pc'[p] = "query"

\* The same for TryClearBadge call q.
ClearUpdates(q) == t_reply[q] = <<>> /\ t_reply'[q] # <<>>
ClearReturns(q) == t_pc[q] = "write" /\ t_pc'[q] = "done"

C2_GapFree ==
  OnlyCreateForUser => \A u \in Users : IdsOf(u) = 1..Cardinality(IdsOf(u))

\* Three records stored by three racing CreateForUser calls, no TryClearBadge
\* call having been made.
C2_Witness ==
  /\ OnlyCreateForUser
  /\ \E u \in Users : IdsOf(u) = 1..3
  /\ lost_race
  /\ \A q \in Clearers : t_pc[q] = "idle"

\* ------------------------------------------------------------------ C3
\* The record call p commits in this step has an id above every id of its user.
AboveAll(p) ==
  \A k \in Keys :
    k[1] = c_notification[p][1].user_id => k[2] < c_notification[p][1].notification_id

\* C3 as claimed: whenever a CreateForUser call commits a record, its
\* notification_id is greater than that of every record that exists for the
\* user at that moment, TryClearBadge with caller-chosen ids included.
C3_Original == [][\A p \in Creators : Commits(p) => AboveAll(p)]_vars

\* C3 as amended: whenever a CreateForUser call commits a record while the ids
\* of the user are 1..n, the committed id is n + 1, above every existing id.
C3_IncreasingWhenGapFree ==
  [][\A p \in Creators :
       (Commits(p) /\ LET ids == IdsOf(c_notification[p][1].user_id)
                      IN  ids = 1..Cardinality(ids))
         => /\ AboveAll(p)
            /\ c_notification[p][1].notification_id
                 = Cardinality(IdsOf(c_notification[p][1].user_id)) + 1]_vars

\* After a lost race, a call returned id 3 above a record of CreateForUser and
\* a clear_badges record that took the next id in sequence.
C3_Witness ==
  \E p \in Returned :
    /\ c_ret[p][1].notification_id = 3
    /\ lost_race
    /\ IdsOf(c_ret[p][1].user_id) = 1..3
    /\ \E k \in Keys : k[2] = 2 /\ table[k].name = "clear_badges"
    /\ \E k \in Keys : k[2] = 1 /\ table[k].op_id # Unset

\* ------------------------------------------------------------------ C4
\* C4: when every CreateForUser call asked for a badge increment and every
\* record was stored by CreateForUser, a record with a higher id has a higher
\* badge: strictly increasing in every interleaving, so non-decreasing under
\* concurrency and strictly increasing for serialized calls.
C4_BadgeMonotonic ==
  (all_inc /\ OnlyCreateForUser) =>
    \A k, j \in Keys :
      (k[1] = j[1] /\ k[2] < j[2]) => table[k].badge < table[j].badge

\* Three records of racing calls that all asked for an increment.
C4_Witness ==
  /\ all_inc
  /\ OnlyCreateForUser
  /\ \E u \in Users : IdsOf(u) = 1..3
  /\ lost_race
  /\ \E k \in Keys : table[k].badge = 3

\* ------------------------------------------------------------------ C5
\* C5: with finitely many callers, fair scheduling and a store whose Update
\* raises only when the id is in use, every CreateForUser call that was made
\* eventually returns a committed record.
C5_EventuallyCommits ==
  \A p \in Creators : (c_pc[p] \in {"query", "write"}) ~> (c_pc[p] = "done")

\* Races for an id were lost, and all three calls have returned their
\* committed records.
C5_Witness ==
  /\ lost_race
  /\ Cardinality(Returned) = 3
  /\ \A p \in Returned :
       Key(c_ret[p][1]) \in Keys /\ table[Key(c_ret[p][1])] = c_ret[p][1]

\* ------------------------------------------------------------------ C6
\* The key of TryClearBadge call q.
KeyOf(q) == Key(t_notification[q][1])

\* The TryClearBadge calls made with key k, those of them that have returned,
\* and those that returned True.
Group(k) == {q \in Clearers : t_pc[q] # "idle" /\ KeyOf(q) = k}
Finished(k) == {q \in Group(k) : t_pc[q] = "done"}
Won(k) == {q \in Finished(k) : t_ret[q] = <<TRUE>>}

\* The earliest of the calls made with key k (calls are numbered as they are made).
First(k) == CHOOSE q \in Group(k) : \A o \in Group(k) : q <= o

\* Calls were made with key k, the key had no record when the first of them
\* was made, and all of them have returned.
Covered(k) == Group(k) # {} /\ Finished(k) = Group(k) /\ t_fresh[First(k)]

ClearKeys == Users \X ClearIds

C7_Original ==
  /\ [](\A q \in Clearers : t_pc[q] = "done" => Len(t_ret[q]) = 1)
  /\ [][\A q \in Clearers :
         /\ ClearReturns(q) => t_ret'[q] = t_reply[q]
         /\ ClearUpdates(q) =>
              /\ t_reply'[q] = <<TRUE>> <=>
                   /\ KeyOf(q) \notin Keys
                   /\ KeyOf(q) \in DOMAIN table'
                   /\ table'[KeyOf(q)] = t_notification[q][1]
              /\ t_reply'[q] = <<FALSE>> <=> KeyOf(q) \in Keys]_vars

\* ------------------------------------------------------------------ C8
\* C8: a CreateForUser call has a return value exactly when it is done; the
\* returned record is the record the table holds at its key, and it carries the
\* name, sender and op_id of this call, which no other call writes; a call
\* that ended with an exception returned nothing.
C8_ReturnIsCommitted ==
  \A p \in Creators :
    /\ c_pc[p] = "done" <=> Len(c_ret[p]) = 1
    /\ c_pc[p] # "done" => c_ret[p] = <<>>
    /\ c_pc[p] = "done" =>
         LET r == c_ret[p][1]
         IN  /\ Key(r) \in Keys
             /\ table[Key(r)] = r
             /\ r.op_id = OperationOf(p).operation_id
             /\ r.name = NameOf(p)
             /\ r.sender_id = OperationOf(p).user_id

\* One call returned its record after a lost race, another ended with the
\* exception of its query.
C8_Witness ==
  /\ lost_race
  /\ \E p \in Returned : c_ret[p][1].notification_id = 2 /\ table[<<1, 2>>] = c_ret[p][1]
  /\ \E p \in Creators : c_pc[p] = "raised"

\* ------------------------------------------------------------------ C9
\* The attempts on key k whose result was success: those of the CreateForUser
\* calls that returned, or are about to return, the record of k, and those of
\* the TryClearBadge calls.
Wins(k) ==
  Cardinality({p \in Returned : Key(c_ret[p][1]) = k})
    + Cardinality({p \in Stored : Key(c_notification[p][1]) = k})
    + Cardinality({q \in Group(k) : t_reply[q] = <<TRUE>>})

\* The TryClearBadge calls with key k whose attempt has been made.
Tried(k) == {q \in Group(k) : t_reply[q] # <<>>}

\* An attempt on key k is known to have been made.
Attempted(k) == Tried(k) # {} \/ Wins(k) > 0

AllKeys == Keys \cup ClearKeys

UpdateFails(p) == Updates(p) /\ ~c_reply'[p].success
ClearFails(q) == ClearUpdates(q) /\ t_reply'[q] = <<FALSE>>

MaxIdOf(u) == IF IdsOf(u) = {} THEN 0 ELSE CHOOSE i \in IdsOf(u) : \A j \in IdsOf(u) : j <= i

\* QueryLast with consistent_read = True on the current store.
StrongLast(u) == QueryLast(table, Visible(log, u, Len(log[u])))

\* The last notification of user u: the record with the highest id, or None.
HighestOf(u) == IF IdsOf(u) = {} THEN <<>> ELSE <<table[<<u, MaxIdOf(u)>>]>>

\* C12: QueryLast with strong consistency returns the user's record with the
\* highest notification_id, in whatever order the records were inserted, and
\* None when the user has no record; the query leaves the store unchanged (and
\* the candidate assembled from its result is numbered one above it).
C12_QueryLastHighest ==
  /\ [](\A u \in Users : StrongLast(u) = HighestOf(u))
  /\ [][\A p \in Creators :
         /\ Answers(p) =>
              /\ table' = table /\ log' = log
              /\ c_args[p].consistent_read =>
                   c_reply'[p].notification = HighestOf(c_args[p].user_id)
         /\ Queries(p) =>
              /\ table' = table /\ log' = log
              /\ c_notification'[p][1].notification_id =
                   IF c_reply[p].notification = <<>> THEN 1
                   ELSE c_reply[p].notification[1].notification_id + 1]_vars

\* The records 2 and 1 were inserted in that order and a strongly consistent
\* QueryLast returned record 2: the candidate got id 3.
C12_Witness ==
  /\ log[1] = <<2, 1>>
  /\ \E p \in Creators :
       /\ c_pc[p] = "write" /\ c_args[p].consistent_read
       /\ c_notification[p][1].notification_id = 3

\* ------------------------------------------------------------------ C13
\* C13 as claimed: within one CreateForUser call, the candidate of the attempt
\* after a failed write has a notification_id strictly greater than the id of
\* the failed attempt, so the call never attempts the same id twice.
C13_Original ==
  [][\A p \in Creators :
       (Queries(p) /\ c_failed[p] # Unset) =>
         c_notification'[p][1].notification_id > c_failed[p]]_vars

\* ------------------------------------------------------------------ C14
\* C14: the first QueryLast of a CreateForUser call uses the consistency the
\* caller asked for; once a write of the call has failed, every later QueryLast
\* of the call is strongly consistent (its answer is the last of the records
\* committed when the store answers); a running call never goes back from
\* strong to eventual.
C14_ConsistencyEscalates ==
  /\ [](\A p \in Creators :
          c_pc[p] = "query" =>
            IF c_failed[p] = Unset
            THEN c_args[p].consistent_read = c_pref[p]
            ELSE c_args[p].consistent_read)
  /\ [][\A p \in Creators :
         /\ (c_args[p].consistent_read /\ c_pc'[p] \in {"query", "write"}) =>
              c_args'[p].consistent_read
         /\ (Answers(p) /\ c_failed[p] # Unset) =>
              c_reply'[p].notification = HighestOf(c_args[p].user_id)]_vars

\* One call awaits its first QueryLast with the eventual consistency it was
\* called with, while another, whose write failed, is about to query with
\* consistent_read = True.
C14_Witness ==
  \E p, o \in Creators :
    /\ c_pc[p] = "query" /\ c_failed[p] = Unset /\ ~c_pref[p] /\ ~c_args[p].consistent_read
    /\ c_pc[o] = "query" /\ c_failed[o] # Unset /\ c_args[o].consistent_read

\* ------------------------------------------------------------------ C15
\* The Update of call p, made for an id no record had, fails in this step:
\* it raised for a reason other than a conflict.
UpdateFaults(p) == UpdateFails(p) /\ Key(c_notification[p][1]) \notin Keys

\* C15 as claimed: a write of CreateForUser that fails for a reason other than
\* an id conflict is handled like a conflict (no error reaches the caller:
\* the result of _TryUpdate is False, and the call resumed with False sets
\* consistent_read = True and goes back to QueryLast), and the retry is safe:
\* no call ever has more than one record committed (a duplicate of an id
\* cannot exist, the table having one record per key).
C15_Original ==
  /\ [][\A p \in Creators :
         /\ UpdateFaults(p) => (c_reply'[p] = TryUpdateReply(FALSE) /\ c_pc'[p] = "write")
         /\ (c_reply[p] = TryUpdateReply(FALSE) /\ c_reply'[p] # c_reply[p]) =>
              /\ c_pc'[p] = "query" /\ c_ret'[p] = <<>>
              /\ c_args'[p] = [c_args[p] EXCEPT !.consistent_read = TRUE]]_vars
  /\ [](\A p \in Creators : Cardinality(CommittedBy(p)) <= 1)

\* ------------------------------------------------------------------ C16
\* C16: an error of QueryLast inside CreateForUser is raised to the caller and
\* not retried: the call attempts no write in that iteration, runs no further
\* iteration and returns nothing, and the store is as it was before the query.
C16_QueryErrorPropagates ==
  /\ [](\A p \in Creators :
          /\ c_error[p] =>
               /\ c_pc[p] = "raised"
               /\ c_ret[p] = <<>> /\ c_notification[p] = <<>> /\ c_reply[p] = NoReply
               /\ CommittedBy(p) = {}
          /\ c_reply[p] = QueryLastRaised => c_pc[p] = "query")
  /\ [][\A p \in Creators :
         /\ (c_reply'[p] = QueryLastRaised /\ c_reply[p] # QueryLastRaised) =>
              (table' = table /\ log' = log)
         /\ (c_reply[p] = QueryLastRaised /\ c_reply'[p] # QueryLastRaised) =>
              /\ c_error'[p] /\ ~c_error[p]
              /\ table' = table /\ log' = log
         /\ (c_error'[p] /\ ~c_error[p]) => c_reply[p] = QueryLastRaised
         /\ c_error[p] => (c_error'[p] /\ c_pc'[p] = c_pc[p])]_vars

\* The QueryLast of a call raised, and a call made after it went on to commit.
C16_Witness ==
  \E p \in Creators :
    /\ c_error[p] /\ c_pc[p] = "raised"
    /\ \E o \in Returned : o > p

\* ------------------------------------------------------------------ C17
\* The key of the record a candidate was derived from: CreateForUser numbers a
\* candidate one above the record it read.
Predecessor(rec) == <<rec.user_id, rec.notification_id - 1>>

\* Call o awaits the result of the write of a candidate derived from the same
\* predecessor as a record that another CreateForUser call has committed,
\* whether that call has been resumed with the result of its write or not.
SharesPredecessor(o) ==
  /\ c_pc[o] = "write"
  /\ \E p \in Creators \ {o} : \E k \in CommittedBy(p) :
        Predecessor(table[k]) = Predecessor(c_notification[o][1])

\* C17 as claimed, for the calls it is about: when two CreateForUser calls
\* computed their candidates from the same predecessor and one candidate has
\* been committed, the write of the other one commits as well.
C17_Original ==
  [][\A o \in Creators :
       (SharesPredecessor(o) /\ c_pc'[o] # "write") => c_pc'[o] = "done"]_vars

\* C17, corrected: two CreateForUser calls may derive candidates from the same
\* predecessor, but at most one of them is committed.  The write of the other
\* fails and stores nothing, no two returned records have the same
\* predecessor, and when every call increments, the records two calls
\* committed at consecutive ids have badges that differ by exactly one.
C17_OneResultPerPredecessor ==
  /\ [][\A o \in Creators :
         /\ (SharesPredecessor(o) /\ Updates(o)) =>
              (c_reply'[o] = TryUpdateReply(FALSE) /\ table' = table)
         /\ (SharesPredecessor(o) /\ c_pc'[o] # "write") =>
              (c_pc'[o] = "query" /\ table' = table)]_vars
  /\ [](\A p, o \in Returned :
          /\ p # o => Predecessor(c_ret[p][1]) # Predecessor(c_ret[o][1])
          /\ (all_inc /\ Key(c_ret[p][1]) = Predecessor(c_ret[o][1])) =>
               c_ret[o][1].badge = c_ret[p][1].badge + 1)

\* Two incrementing calls read record 1 and derived a candidate with id 2 from
\* it; one was committed, the write of the other failed and it is about to
\* read again.
C17_Witness ==
  \E p, o \in Creators :
    /\ all_inc /\ p # o
    /\ c_pc[p] = "done" /\ c_ret[p][1].notification_id = 2 /\ c_ret[p][1].badge = 2
    /\ c_pc[o] = "query" /\ c_failed[o] = 2 /\ c_args[o].user_id = c_ret[p][1].user_id

\* ------------------------------------------------------------------ C18
\* C18: when CreateForUser commits a record with notification_id k > 1, a
\* record with id k-1 of the same user exists and the committed badge is that
\* record's badge, plus 1 if the call was made with inc_badge = True; a record
\* committed with id 1 has badge 1 or 0 accordingly.  In every interleaving,
\* with stale reads, store faults and ids inserted by TryClearBadge.
C18_BadgeFromPredecessor ==
  [][\A p \in Creators :
       Commits(p) =>
         LET rec == c_notification[p][1]
             inc == IF c_args[p].inc_badge THEN 1 ELSE 0
         IN  /\ Key(rec) \in DOMAIN table' /\ table'[Key(rec)] = rec
             /\ IF rec.notification_id > 1
                THEN /\ Predecessor(rec) \in Keys
                     /\ rec.badge = table[Predecessor(rec)].badge + inc
                ELSE rec.badge = inc]_vars

\* After a record with badge 1 and a clear_badges record at id 2, a call that
\* lost a write committed id 3 with badge 1: the clear_badges badge 0 plus 1.
C18_Witness ==
  /\ <<1, 1>> \in Keys /\ <<1, 2>> \in Keys /\ <<1, 3>> \in Keys
  /\ table[<<1, 1>>].badge = 1
  /\ table[<<1, 2>>].name = "clear_badges"
  /\ table[<<1, 3>>].badge = 1 /\ table[<<1, 3>>].op_id # Unset
  /\ lost_race

\* ------------------------------------------------------------------ C19
\* The records of user u, and the commit order of user u alone.
RecordsOf(u) == [k \in {j \in Keys : j[1] = u} |-> table[k]]
LogOf(u) == [v \in Users |-> IF v = u THEN log[u] ELSE <<>>]

\* The step leaves the records of every user other than u as they were.
OthersUnchanged(u) ==
  /\ \A k \in Keys : k[1] # u => (k \in DOMAIN table' /\ table'[k] = table[k])
  /\ \A k \in DOMAIN table' : k[1] # u => k \in Keys
  /\ \A v \in Users \ {u} : log'[v] = log[v]

\* C19: a step of a CreateForUser or TryClearBadge call for user U leaves the
\* records of every other user unchanged, so does the store when it answers
\* the call; the answer to its query is a function of U's records alone, the
\* candidate (id and badge) is a function of that answer and is keyed by U,
\* and its write conflicts only with a record of U.  Checked under SpecUsers,
\* with calls for both users.
C19_NoCrossUser ==
  [][/\ \A p \in Creators :
          /\ (c_pc'[p] # c_pc[p] \/ c_reply'[p] # c_reply[p]) =>
               OthersUnchanged(IF c_pc[p] = "idle" THEN c_args'[p].user_id
                               ELSE c_args[p].user_id)
          /\ Answers(p) =>
               \E n \in 0..Len(log[c_args[p].user_id]) :
                 c_reply'[p].notification =
                   QueryLast(RecordsOf(c_args[p].user_id),
                             Visible(LogOf(c_args[p].user_id), c_args[p].user_id, n))
          /\ Queries(p) =>
               /\ c_notification'[p][1] = Candidate(p, c_args[p], c_reply[p].notification)
               /\ c_notification'[p][1].user_id = c_args[p].user_id
          /\ Updates(p) =>
               (c_reply'[p].success <=>
                  c_notification[p][1].notification_id \notin IdsOf(c_args[p].user_id))
     /\ \A q \in Clearers :
          (t_pc'[q] # t_pc[q] \/ t_reply'[q] # t_reply[q]) =>
            OthersUnchanged(IF t_pc[q] = "idle" THEN t_notification'[q][1].user_id
                            ELSE t_notification[q][1].user_id)]_vars

\* Calls for both users have committed: each user has a record with id 1 and
\* user 1 also one with id 2, and no CreateForUser call met a conflict.
C19_Witness ==
  /\ IdsOf(1) = {1, 2} /\ IdsOf(2) = {1}
  /\ \E p \in ReturnedFor(1), o \in ReturnedFor(2) :
       c_ret[p][1].notification_id = 1 /\ c_ret[o][1].notification_id = 1
  /\ ~lost_race

\* ------------------------------------------------------------------ C20
\* The candidate rec of a call with arguments args, triggered by an operation
\* of user op_user_id, carries the sequence numbers the claim describes.
SeqAsClaimed(rec, args, op_user_id) ==
  /\ rec.viewed_seq # <<>> <=>
       /\ args.seq_num_pair # <<>>
       /\ args.seq_num_pair[1].viewed_seq # <<>>
       /\ op_user_id = args.user_id
  /\ rec.viewed_seq # <<>> => rec.viewed_seq = args.seq_num_pair[1].viewed_seq
  /\ args.seq_num_pair # <<>> => rec.update_seq = args.seq_num_pair[1].update_seq
  /\ args.seq_num_pair = <<>> => rec.update_seq = <<>>

\* C20: the record CreateForUser commits carries viewed_seq exactly when a
\* seq_num_pair with a viewed_seq other than None was supplied and the user of
\* the operation is the target user, and then it is the supplied value;
\* update_seq is the supplied one whenever a seq_num_pair was supplied and
\* unset otherwise; the candidate of every iteration of the loop, the first
\* and every retry, carries the same two fields, and the seq_num_pair of a
\* running call never changes.  Checked under SpecSeq.
C20_SeqFields ==
  /\ [](\A p \in Creators :
          c_pc[p] = "write" =>
            SeqAsClaimed(c_notification[p][1], c_args[p], OperationOf(p).user_id))
  /\ [][\A p \in Creators :
         /\ Commits(p) =>
              /\ table'[Key(c_notification[p][1])] = c_notification[p][1]
              /\ SeqAsClaimed(c_notification[p][1], c_args[p], OperationOf(p).user_id)
         /\ Returns(p) => c_ret'[p] = c_notification[p]
         /\ (c_pc[p] \in {"query", "write"} /\ c_pc'[p] \in {"query", "write"}) =>
              c_args'[p].seq_num_pair = c_args[p].seq_num_pair]_vars

\* Call 2, triggered by an operation of user 2, was made for user 1 with
\* seq_num_pair (1, 0); a write of it failed and the candidate of its retry
\* carries update_seq 1 and no viewed_seq, while call 1, of an operation of
\* user 1 for user 1, committed a record with viewed_seq 0.
C20_Witness ==
  /\ c_pc[2] = "write" /\ c_args[2].consistent_read /\ c_args[2].user_id = 1
  /\ c_args[2].seq_num_pair = <<[update_seq |-> <<1>>, viewed_seq |-> <<0>>]>>
  /\ c_notification[2][1].update_seq = <<1>> /\ c_notification[2][1].viewed_seq = <<>>
  /\ c_pc[1] = "done" /\ c_ret[1][1].user_id = 1 /\ c_ret[1][1].viewed_seq = <<0>>

=============================================================================
